---- MODULE Spec2Model ----
(***************************************************************************)
(* A model of the osTicket command-line client: the configuration          *)
(* resolver (internal/config), the API client with its response            *)
(* normalisation (internal/api) and the command dispatcher (cmd/osticket). *)
(* One CLI invocation is one process: it starts from the environment and   *)
(* the persisted file, runs one command handler, and exits with a code.    *)
(* The HTTP exchange is the only point where a handler blocks: a request   *)
(* is issued, and the server's reply is an input of the next step.         *)
(***************************************************************************)
EXTENDS Integers, Sequences, FiniteSets, TLC

(***************************************************************************)
(* Bounds of the model.                                                    *)
(***************************************************************************)
MaxTotal == 1
MaxUserID == 2
MaxParam == 1
MaxCalls == 3

(***************************************************************************)
(* JSON values, as the server may send them.  JAbsent stands for a missing *)
(* "data" key: the RawMessage stays empty (zero bytes).                    *)
(***************************************************************************)
JAbsent == [kind |-> "absent"]
JNull == [kind |-> "null"]
JNum(n) == [kind |-> "num", n |-> n]
JStr(s) == [kind |-> "str", s |-> s]
JArr(a) == [kind |-> "arr", a |-> a]
JObj(o) == [kind |-> "obj", o |-> o]

HasKey(j, k) == j.kind = "obj" /\ k \in DOMAIN j.o

(***************************************************************************)
(* Go values.  A slice is nil or a sequence (an empty non-nil slice is not *)
(* nil); a pointer is nil or holds a value.                                *)
(***************************************************************************)
NilSlice == [nil |-> TRUE, elems |-> <<>>]
Slice(s) == [nil |-> FALSE, elems |-> s]
Append_(sl, x) == [nil |-> FALSE, elems |-> Append(sl.elems, x)]

NilPtr == [nil |-> TRUE]
Ptr(v) == [nil |-> FALSE, v |-> v]

NoErr == [kind |-> "nil", msg |-> ""]
Err(k, m) == [kind |-> k, msg |-> m]

ZeroTicket == [ticket_id |-> 0, user_id |-> 0]
ZeroUser == [user_id |-> 0, name |-> ""]

(***************************************************************************)
(* encoding/json's Unmarshal as the client uses it: a result is            *)
(* [err, val].  A JSON null leaves the target at its zero value and is no  *)
(* error; a key that names no field of the target is ignored; a value of   *)
(* the wrong JSON type for its field is an error; empty input is an error. *)
(* On an error the callers drop the target, so val is the zero value.      *)
(***************************************************************************)
DecOk(v) == [err |-> FALSE, val |-> v]
DecFail(z) == [err |-> TRUE, val |-> z]

DecodeInt(j) ==
    CASE j.kind = "num" -> DecOk(j.n)
      [] j.kind = "null" -> DecOk(0)
      [] OTHER -> DecFail(0)

DecodeString(j) ==
    CASE j.kind = "str" -> DecOk(j.s)
      [] j.kind = "null" -> DecOk("")
      [] OTHER -> DecFail("")

\* A struct field: the key's value decoded by dec, or the zero value when the
\* object has no such key.
Field(j, k, dec(_), zero) == IF HasKey(j, k) THEN dec(j.o[k]) ELSE DecOk(zero)

\* A struct of two fields, made by mk from the fields' values: an error when
\* either field's value has the wrong type; the zero struct for a JSON null; an
\* error for any other JSON value.
Struct2(j, a, b, zero, mk(_, _)) ==
    CASE j.kind = "null" -> DecOk(zero)
      [] j.kind = "obj" -> IF a.err \/ b.err THEN DecFail(zero) ELSE DecOk(mk(a.val, b.val))
      [] OTHER -> DecFail(zero)

\* A slice: nil for a JSON null, the decoded elements for an array (an error
\* when one element is), an error for any other JSON value.
DecodeSlice(j, dec(_)) ==
    CASE j.kind = "null" -> DecOk(NilSlice)
      [] j.kind = "arr" ->
           IF \E i \in 1..Len(j.a) : dec(j.a[i]).err THEN DecFail(NilSlice)
           ELSE DecOk(Slice([i \in 1..Len(j.a) |-> dec(j.a[i]).val]))
      [] OTHER -> DecFail(NilSlice)

\* Ticket (of its fields, ticket_id and user_id are modelled)
DecodeTicket(j) ==
    Struct2(j, Field(j, "ticket_id", DecodeInt, 0), Field(j, "user_id", DecodeInt, 0),
            ZeroTicket, LAMBDA t, u : [ticket_id |-> t, user_id |-> u])

\* User
DecodeUser(j) ==
    Struct2(j, Field(j, "user_id", DecodeInt, 0), Field(j, "name", DecodeString, ""),
            ZeroUser, LAMBDA u, n : [user_id |-> u, name |-> n])

\* []Ticket
DecodeTicketSlice(j) == DecodeSlice(j, DecodeTicket)

\* [][]Ticket
DecodeTicketGroups(j) == DecodeSlice(j, DecodeTicketSlice)

\* []User
DecodeUserSlice(j) == DecodeSlice(j, DecodeUser)

ZeroTicketData == [Total |-> 0, Tickets |-> NilSlice]
ZeroFlatData == [Total |-> 0, Tickets |-> NilSlice]
ZeroSingleData == [Total |-> 0, Ticket |-> ZeroTicket]
ZeroUserData == [Total |-> 0, Users |-> NilSlice]
ZeroListData == [Total |-> 0, Items |-> NilSlice]

\* json.Unmarshal(resp.Data, &data) with data of type TicketData
DecodeTicketData(j) ==
    Struct2(j, Field(j, "total", DecodeInt, 0), Field(j, "tickets", DecodeTicketGroups, NilSlice),
            ZeroTicketData, LAMBDA n, t : [Total |-> n, Tickets |-> t])

\* json.Unmarshal(resp.Data, &flatData): struct {Total int; Tickets []Ticket}
DecodeFlatData(j) ==
    Struct2(j, Field(j, "total", DecodeInt, 0), Field(j, "tickets", DecodeTicketSlice, NilSlice),
            ZeroFlatData, LAMBDA n, t : [Total |-> n, Tickets |-> t])

\* json.Unmarshal(resp.Data, &singleData): struct {Total int; Ticket Ticket}
DecodeSingleData(j) ==
    Struct2(j, Field(j, "total", DecodeInt, 0), Field(j, "ticket", DecodeTicket, ZeroTicket),
            ZeroSingleData, LAMBDA n, t : [Total |-> n, Ticket |-> t])

\* json.Unmarshal(resp.Data, &data) with data of type UserData
DecodeUserData(j) ==
    Struct2(j, Field(j, "total", DecodeInt, 0), Field(j, "users", DecodeUserSlice, NilSlice),
            ZeroUserData, LAMBDA n, u : [Total |-> n, Users |-> u])

\* A list entry of the info operations: Department {id, name}, Topic {topic_id,
\* topic}, SLA {id, name} (its grace_period is not modelled).
DecodeEntry(j, idKey, nameKey) ==
    Struct2(j, Field(j, idKey, DecodeInt, 0), Field(j, nameKey, DecodeString, ""),
            [id |-> 0, name |-> ""], LAMBDA i, n : [id |-> i, name |-> n])

\* json.Unmarshal(resp.Data, &data) with data of type DepartmentData, TopicData
\* or SLAData: {Total int; <key> []Entry}
DecodeListData(j, key, idKey, nameKey) ==
    Struct2(j, Field(j, "total", DecodeInt, 0),
            Field(j, key, LAMBDA x : DecodeSlice(x, LAMBDA y : DecodeEntry(y, idKey, nameKey)),
                  NilSlice),
            ZeroListData, LAMBDA n, l : [Total |-> n, Items |-> l])

(***************************************************************************)
(* The API client.  A Client holds the credentials; a Request is the       *)
(* request envelope; an HTTP request is what HTTPClient.Do is called with. *)
(* An operation is a function of the client, its arguments and the         *)
(* replies the transport has delivered so far: it either blocks in         *)
(* HTTPClient.Do on a request (blocked, http), or has returned (err, val). *)
(***************************************************************************)
NewClient(baseURL, apiKey) == [BaseURL |-> baseURL, APIKey |-> apiKey]

NoHTTP == [Method |-> "", URL |-> "", apikey |-> "", Body |-> <<>>]
Blocked(http) == [blocked |-> TRUE, http |-> http, err |-> NoErr, val |-> NilPtr]
Ret(err, val) == [blocked |-> FALSE, http |-> NoHTTP, err |-> err, val |-> val]

\* Base URLs that url.Parse rejects, so that http.NewRequest returns an error.
InvalidURLs == {":bad"}

\* What the transport delivers for one HTTPClient.Do call.
\*   do_fail    Do returned an error (network, timeout)
\*   read_fail  the body could not be read
\*   bad_body   the body is not a JSON object that decodes into Response
\*   json       a response envelope {status, message, data}
IsEnvelope(reply) == reply.kind = "json"

\* ReadReply without the status check: an envelope is handed on whatever its status.
ReadReplyAnyStatus(reply) ==
    CASE reply.kind = "do_fail" -> Ret(Err("request failed", ""), NilPtr)
      [] reply.kind = "read_fail" -> Ret(Err("failed to read response", ""), NilPtr)
      [] reply.kind = "bad_body" -> Ret(Err("failed to parse response", ""), NilPtr)
      [] OTHER -> Ret(NoErr, Ptr([Status |-> reply.status, Message |-> reply.message,
                                  Data |-> reply.data]))

\* ReadReply that takes the status for an error whatever its case.
ReadReplyAnyCase(reply) ==
    CASE reply.kind = "do_fail" -> Ret(Err("request failed", ""), NilPtr)
      [] reply.kind = "read_fail" -> Ret(Err("failed to read response", ""), NilPtr)
      [] reply.kind = "bad_body" -> Ret(Err("failed to parse response", ""), NilPtr)
      [] OTHER ->
           IF reply.status \in {"Error", "error"}
           THEN Ret(Err("API error", reply.message), NilPtr)
           ELSE Ret(NoErr, Ptr([Status |-> reply.status, Message |-> reply.message,
                                Data |-> reply.data]))

\* The tail shared by doRequest and doGetRequest once Do has returned.
ReadReply(reply) ==
    CASE reply.kind = "do_fail" -> Ret(Err("request failed", ""), NilPtr)
      [] reply.kind = "read_fail" -> Ret(Err("failed to read response", ""), NilPtr)
      [] reply.kind = "bad_body" -> Ret(Err("failed to parse response", ""), NilPtr)
      [] OTHER ->
           IF reply.status = "Error"
           THEN Ret(Err("API error", reply.message), NilPtr)
           ELSE Ret(NoErr, Ptr([Status |-> reply.status, Message |-> reply.message,
                                Data |-> reply.data]))

\* doRequest that sends whatever the base URL is.
doRequestAnyURL(c, req, replies) ==
    IF replies = <<>>
    THEN Blocked([Method |-> "POST", URL |-> c.BaseURL, apikey |-> c.APIKey, Body |-> req])
    ELSE ReadReply(Head(replies))

\* doRequest performs the API request (POST)
doRequest(c, req, replies) ==
    IF c.BaseURL \in InvalidURLs THEN Ret(Err("failed to create request", ""), NilPtr)
    ELSE IF replies = <<>>
         THEN Blocked([Method |-> "POST", URL |-> c.BaseURL, apikey |-> c.APIKey, Body |-> req])
         ELSE ReadReply(Head(replies))

\* doGetRequest that sends a POST.
doGetRequestAsPost(c, req, replies) ==
    IF c.BaseURL \in InvalidURLs THEN Ret(Err("failed to create request", ""), NilPtr)
    ELSE IF replies = <<>>
         THEN Blocked([Method |-> "POST", URL |-> c.BaseURL, apikey |-> c.APIKey, Body |-> req])
         ELSE ReadReply(Head(replies))

\* doGetRequest performs a GET API request with JSON body
doGetRequest(c, req, replies) ==
    IF c.BaseURL \in InvalidURLs THEN Ret(Err("failed to create request", ""), NilPtr)
    ELSE IF replies = <<>>
         THEN Blocked([Method |-> "GET", URL |-> c.BaseURL, apikey |-> c.APIKey, Body |-> req])
         ELSE ReadReply(Head(replies))

Request(q, cond, sort, params) ==
    [Query |-> q, Condition |-> cond, Sort |-> sort, Parameters |-> params]

\* The common body of an operation after its request: still blocked; the error
\* of the request returned with the zero result; or the data decoded by decode.
OnReply(r, zero, decode(_)) ==
    IF r.blocked THEN r
    ELSE IF r.err # NoErr THEN Ret(r.err, zero)
    ELSE decode(r.val.v.Data)

\* The result of a decode: the value, or the error named what.
Decoded(d, what, zero, mk(_)) ==
    IF d.err THEN Ret(Err(what, ""), zero) ELSE Ret(NoErr, mk(d.val))

\* The conversion of the flat shape: one singleton group per record, appended to
\* a nil slice (which stays nil when there is no record).
RECURSIVE WrapEach(_, _)
WrapEach(acc, ts) ==
    IF ts = <<>> THEN acc
    ELSE WrapEach(Append_(acc, Slice(<<Head(ts)>>)), Tail(ts))

\* The three decodes with the single-object one tried first.
FirstOfSingleFirst(nested, flat, single) ==
    IF ~single.err
    THEN Ret(NoErr, Ptr([Total |-> single.val.Total,
                         Tickets |-> Slice(<<Slice(<<single.val.Ticket>>)>>)]))
    ELSE IF ~nested.err THEN Ret(NoErr, Ptr(nested.val))
    ELSE IF ~flat.err
         THEN Ret(NoErr, Ptr([Total |-> flat.val.Total,
                              Tickets |-> WrapEach(NilSlice, flat.val.Tickets.elems)]))
    ELSE Ret(Err("failed to parse ticket data: unexpected response format", ""), NilPtr)

\* The three decodes with the total of a flat response recomputed from its records.
FirstOfRecount(nested, flat, single) ==
    IF ~nested.err THEN Ret(NoErr, Ptr(nested.val))
    ELSE IF ~flat.err
         THEN Ret(NoErr, Ptr([Total |-> Len(flat.val.Tickets.elems),
                              Tickets |-> WrapEach(NilSlice, flat.val.Tickets.elems)]))
    ELSE IF ~single.err
         THEN Ret(NoErr, Ptr([Total |-> single.val.Total,
                              Tickets |-> Slice(<<Slice(<<single.val.Ticket>>)>>)]))
    ELSE Ret(Err("failed to parse ticket data: unexpected response format", ""), NilPtr)

\* The three decodes of GetTicket, in the code's order: the first that succeeds
\* gives the result.
FirstOf(nested, flat, single) ==
    IF ~nested.err THEN Ret(NoErr, Ptr(nested.val))
    ELSE IF ~flat.err
         THEN Ret(NoErr, Ptr([Total |-> flat.val.Total,
                              Tickets |-> WrapEach(NilSlice, flat.val.Tickets.elems)]))
    ELSE IF ~single.err
         THEN Ret(NoErr, Ptr([Total |-> single.val.Total,
                              Tickets |-> Slice(<<Slice(<<single.val.Ticket>>)>>)]))
    ELSE Ret(Err("failed to parse ticket data: unexpected response format", ""), NilPtr)

NormalizeTicketData(data) ==
    FirstOf(DecodeTicketData(data), DecodeFlatData(data), DecodeSingleData(data))

\* GetTicket gets a specific ticket by ID or number (uses GET)
GetTicket(c, id, replies) ==
    OnReply(doGetRequest(c, Request("ticket", "specific", "", [id |-> id]), replies),
            NilPtr, NormalizeTicketData)

\* The listings' decode with GetTicket's fallback chain.
ListingDataWithFallback(data) == NormalizeTicketData(data)

\* The decode shared by the two listings: the nested shape only.
ListingData(data) ==
    Decoded(DecodeTicketData(data), "failed to parse ticket data", NilPtr, Ptr)

\* GetTicketsByStatus gets tickets by status
GetTicketsByStatus(c, status, replies) ==
    OnReply(doRequest(c, Request("ticket", "all", "status", [status |-> status]), replies),
            NilPtr, ListingData)

\* GetTicketsByDateRange gets tickets by creation date range
GetTicketsByDateRange(c, startDate, endDate, replies) ==
    OnReply(doRequest(c, Request("ticket", "all", "creationDate",
                                 [start_date |-> startDate, end_date |-> endDate]), replies),
            NilPtr, ListingData)

Same(x) == x

\* CreateTicket with the department and the SLA plan cross-assigned.
CreateTicketCrossed(c, params, replies) ==
    OnReply(doRequest(c, Request("ticket", "add", "",
                [title |-> params.Title,
                 subject |-> params.Subject,
                 user_id |-> params.UserID,
                 priority_id |-> params.PriorityID,
                 status_id |-> params.StatusID,
                 dept_id |-> params.SLAID,
                 sla_id |-> params.DeptID,
                 topic_id |-> params.TopicID]), replies),
            0, LAMBDA d : Decoded(DecodeInt(d), "failed to parse ticket ID", 0, Same))

\* CreateTicket creates a new ticket
CreateTicket(c, params, replies) ==
    OnReply(doRequest(c, Request("ticket", "add", "",
                [title |-> params.Title,
                 subject |-> params.Subject,
                 user_id |-> params.UserID,
                 priority_id |-> params.PriorityID,
                 status_id |-> params.StatusID,
                 dept_id |-> params.DeptID,
                 sla_id |-> params.SLAID,
                 topic_id |-> params.TopicID]), replies),
            0, LAMBDA d : Decoded(DecodeInt(d), "failed to parse ticket ID", 0, Same))

\* The operations that return only an error.
ErrorOnly(r) == IF r.blocked THEN r ELSE Ret(r.err, NilPtr)

\* ReplyToTicket adds a reply to a ticket
ReplyToTicket(c, ticketID, body, staffID, replies) ==
    ErrorOnly(doRequest(c, Request("ticket", "reply", "",
                [ticket_id |-> ticketID, body |-> body, staff_id |-> staffID]), replies))

\* CloseTicket closes a ticket
CloseTicket(c, params, replies) ==
    ErrorOnly(doRequest(c, Request("ticket", "close", "",
                [ticket_id |-> params.TicketID,
                 body |-> params.Body,
                 staff_id |-> params.StaffID,
                 status_id |-> params.StatusID,
                 team_id |-> params.TeamID,
                 dept_id |-> params.DeptID,
                 topic_id |-> params.TopicID,
                 username |-> params.Username]), replies))

UserResult(data) ==
    Decoded(DecodeUserData(data), "failed to parse user data", NilPtr, Ptr)

\* GetUserByID gets a user by ID
GetUserByID(c, id, replies) ==
    OnReply(doRequest(c, Request("user", "specific", "id", [id |-> id]), replies),
            NilPtr, UserResult)

\* GetUserByEmail gets a user by email
GetUserByEmail(c, email, replies) ==
    OnReply(doRequest(c, Request("user", "specific", "email", [email |-> email]), replies),
            NilPtr, UserResult)

\* CreateUser creates a new user
CreateUser(c, params, replies) ==
    OnReply(doRequest(c, Request("user", "add", "",
                [name |-> params.Name,
                 email |-> params.Email,
                 password |-> params.Password,
                 phone |-> params.Phone,
                 timezone |-> params.Timezone,
                 org_id |-> params.OrgID,
                 default_email_id |-> params.DefaultEmailID,
                 status |-> params.Status]), replies),
            0, LAMBDA d : Decoded(DecodeInt(d), "failed to parse user ID", 0, Same))

\* GetDepartments gets all departments
GetDepartments(c, replies) ==
    OnReply(doRequest(c, Request("department", "all", "all", <<>>), replies), NilPtr,
            LAMBDA d : Decoded(DecodeListData(d, "departments", "id", "name"),
                               "failed to parse department data", NilPtr, Ptr))

\* GetTopics gets all help topics
GetTopics(c, replies) ==
    OnReply(doRequest(c, Request("topics", "all", "all", <<>>), replies), NilPtr,
            LAMBDA d : Decoded(DecodeListData(d, "topics", "topic_id", "topic"),
                               "failed to parse topic data", NilPtr, Ptr))

\* GetSLAs gets all SLA plans
GetSLAs(c, replies) ==
    OnReply(doRequest(c, Request("sla", "all", "all", <<>>), replies), NilPtr,
            LAMBDA d : Decoded(DecodeListData(d, "sla", "id", "name"),
                               "failed to parse SLA data", NilPtr, Ptr))

\* The filter of SearchTicketsByEmail: the groups holding a record of the user,
\* appended in order to a nil slice.
RECURSIVE FilterByUser(_, _, _)
FilterByUser(acc, groups, uid) ==
    IF groups = <<>> THEN acc
    ELSE FilterByUser(IF \E i \in 1..Len(Head(groups).elems) :
                            Head(groups).elems[i].user_id = uid
                      THEN Append_(acc, Head(groups)) ELSE acc,
                      Tail(groups), uid)

\* SearchTicketsByEmail, from the listing of all tickets on.
SearchFiltered(user, filtered) ==
    Ret(NoErr, [data |-> Ptr([Total |-> Len(filtered.elems), Tickets |-> filtered]),
                user |-> Ptr(user)])

\* SearchTicketsByEmail that returns every group of the listing.
SearchListedUnfiltered(user, allTickets) ==
    IF allTickets.blocked THEN allTickets
    ELSE IF allTickets.err # NoErr
         THEN Ret(allTickets.err, [data |-> NilPtr, user |-> Ptr(user)])
    ELSE SearchFiltered(user, allTickets.val.v.Tickets)

SearchListed(user, allTickets) ==
    IF allTickets.blocked THEN allTickets
    ELSE IF allTickets.err # NoErr
         THEN Ret(allTickets.err, [data |-> NilPtr, user |-> Ptr(user)])
    ELSE SearchFiltered(user, FilterByUser(NilSlice, allTickets.val.v.Tickets.elems,
                                           user.user_id))

\* SearchTicketsByEmail that lists the tickets even when the lookup found nobody.
SearchLookedUpAlwaysLists(c, userData, replies) ==
    IF userData.blocked THEN userData
    ELSE IF userData.err # NoErr
         THEN Ret(userData.err, [data |-> NilPtr, user |-> NilPtr])
    ELSE IF Len(userData.val.v.Users.elems) = 0
         THEN SearchListed(ZeroUser, GetTicketsByStatus(c, 0, Tail(replies)))
    ELSE SearchListed(userData.val.v.Users.elems[1],
                      GetTicketsByStatus(c, 0, Tail(replies)))

\* SearchTicketsByEmail, from the user lookup on.
SearchLookedUp(c, userData, replies) ==
    IF userData.blocked THEN userData
    ELSE IF userData.err # NoErr
         THEN Ret(userData.err, [data |-> NilPtr, user |-> NilPtr])
    ELSE IF Len(userData.val.v.Users.elems) = 0
         THEN Ret(NoErr, [data |-> Ptr([Total |-> 0, Tickets |-> Slice(<<>>)]),
                          user |-> NilPtr])
    ELSE SearchListed(userData.val.v.Users.elems[1],
                      GetTicketsByStatus(c, 0, Tail(replies)))

\* SearchTicketsByEmail searches tickets by user email
SearchTicketsByEmail(c, email, replies) ==
    SearchLookedUp(c, GetUserByEmail(c, email, replies), replies)

(***************************************************************************)
(* The raw operations the dispatcher calls in its raw mode.  Each sends    *)
(* the request of the operation it is named after and hands back the       *)
(* response body untouched, whatever it holds; it fails when the request   *)
(* cannot be built or sent or the body cannot be read.                     *)
(***************************************************************************)
doRawRequest(c, method, req, replies) ==
    IF c.BaseURL \in InvalidURLs THEN Ret(Err("failed to create request", ""), NilPtr)
    ELSE IF replies = <<>>
         THEN Blocked([Method |-> method, URL |-> c.BaseURL, apikey |-> c.APIKey, Body |-> req])
    ELSE IF Head(replies).kind = "do_fail" THEN Ret(Err("request failed", ""), NilPtr)
    ELSE IF Head(replies).kind = "read_fail"
         THEN Ret(Err("failed to read response", ""), NilPtr)
    ELSE Ret(NoErr, Head(replies))

GetTicketRaw(c, id, replies) ==
    doRawRequest(c, "GET", Request("ticket", "specific", "", [id |-> id]), replies)

GetTicketsByStatusRaw(c, status, replies) ==
    doRawRequest(c, "POST", Request("ticket", "all", "status", [status |-> status]), replies)

GetTicketsByDateRangeRaw(c, startDate, endDate, replies) ==
    doRawRequest(c, "POST", Request("ticket", "all", "creationDate",
                                    [start_date |-> startDate, end_date |-> endDate]), replies)

GetUserByEmailRaw(c, email, replies) ==
    doRawRequest(c, "POST", Request("user", "specific", "email", [email |-> email]), replies)

(***************************************************************************)
(* The configuration resolver.  The environment holds the two variables    *)
(* ("" is unset or empty: os.Getenv does not tell them apart); the         *)
(* persisted file is absent or holds both keys.  The viper handle of a     *)
(* process holds the values Set in this process (override) and the values  *)
(* read from the file when the process started (config).                   *)
(***************************************************************************)
Keys == {"base_url", "api_key"}

EnvBaseURL == "OSTICKET_BASE_URL"
EnvAPIKey == "OSTICKET_API_KEY"
EnvName(key) == IF key = "base_url" THEN EnvBaseURL ELSE EnvAPIKey

Unset == [set |-> FALSE, val |-> ""]
IsSet(v) == [set |-> TRUE, val |-> v]

NoFile == [exists |-> FALSE, base_url |-> "", api_key |-> ""]

\* init: a fresh viper handle, the defaults set, the environment bound, and the
\* config file read if it exists.
init(f) ==
    [override |-> [k \in Keys |-> Unset],
     config |-> [k \in Keys |-> IF f.exists THEN IsSet(f[k]) ELSE Unset]]

\* viper's lookup with the file's value ahead of a value Set in this process.
GetStringStale(v, e, key) ==
    IF e[key] # "" THEN e[key]
    ELSE IF v.config[key].set THEN v.config[key].val
    ELSE IF v.override[key].set THEN v.override[key].val
    ELSE ""

\* viper's lookup order for a bound key: a value Set in this process, then the
\* bound environment variable when not empty, then the file's value, then the
\* default "".
GetString(v, e, key) ==
    IF v.override[key].set THEN v.override[key].val
    ELSE IF e[key] # "" THEN e[key]
    ELSE IF v.config[key].set THEN v.config[key].val
    ELSE ""

\* Get returns a config value
Get(v, e, key) == GetString(v, e, key)

\* Save writes the config to file: every key with the value the handle resolves
\* for it.  ok is whether the write succeeds.
Save(v, e, f, ok) ==
    IF ok THEN [exists |-> TRUE,
                base_url |-> GetString(v, e, "base_url"),
                api_key |-> GetString(v, e, "api_key")]
    ELSE f

\* cfg.Set(key, value)
SetOverride(v, key, value) == [v EXCEPT !.override[key] = IsSet(value)]

\* Set sets a config value and saves to file: the handle and the file afterwards,
\* and whether an error is returned.
Set(v, e, f, key, value, ok) ==
    LET v2 == SetOverride(v, key, value)
    IN [v |-> v2, f |-> Save(v2, e, f, ok), err |-> ~ok]

\* SetBaseURL sets the API base URL
SetBaseURL(v, e, f, url, ok) == Set(v, e, f, "base_url", url, ok)

\* SetAPIKey sets the API key
SetAPIKey(v, e, f, key, ok) == Set(v, e, f, "api_key", key, ok)

\* GetBaseURL with the file's value taking precedence over the environment.
GetBaseURLFileFirst(v, e) ==
    IF v.config["base_url"].set /\ v.config["base_url"].val # ""
    THEN v.config["base_url"].val
    ELSE e["base_url"]

\* GetBaseURL returns the API base URL (env var takes precedence)
GetBaseURL(v, e) ==
    IF e["base_url"] # "" THEN e["base_url"] ELSE GetString(v, e, "base_url")

\* GetAPIKey returns the API key (env var takes precedence)
GetAPIKey(v, e) ==
    IF e["api_key"] # "" THEN e["api_key"] ELSE GetString(v, e, "api_key")

\* IsConfigured that is content with either value.
IsConfiguredEither(v, e) == GetBaseURL(v, e) # "" \/ GetAPIKey(v, e) # ""

\* IsConfigured checks if the CLI is configured
IsConfigured(v, e) == GetBaseURL(v, e) # "" /\ GetAPIKey(v, e) # ""

\* Clear that clears the base URL only.
ClearURLOnly(v, e, f, ok) ==
    LET v2 == SetOverride(v, "base_url", "")
    IN [v |-> v2, f |-> Save(v2, e, f, ok), err |-> ~ok]

\* Clear clears all configuration
Clear(v, e, f, ok) ==
    LET v2 == SetOverride(SetOverride(v, "base_url", ""), "api_key", "")
    IN [v |-> v2, f |-> Save(v2, e, f, ok), err |-> ~ok]

\* GetConfigSource that looks at the handle's value before the environment.
ConfigSourceOfHandleFirst(v, e, key) ==
    IF v.config[key].set /\ v.config[key].val # "" THEN "config"
    ELSE IF e[key] # "" THEN "env:" \o EnvName(key)
    ELSE IF GetString(v, e, key) # "" THEN "config"
    ELSE "not set"

\* GetConfigSource returns where each config value is coming from
ConfigSourceOf(v, e, key) ==
    IF e[key] # "" THEN "env:" \o EnvName(key)
    ELSE IF GetString(v, e, key) # "" THEN "config"
    ELSE "not set"

GetConfigSource(v, e) ==
    [baseURLSource |-> ConfigSourceOf(v, e, "base_url"),
     apiKeySource |-> ConfigSourceOf(v, e, "api_key")]

(***************************************************************************)
(* The command dispatcher.  A handler is a function of the command's       *)
(* flags, the client and the replies delivered so far: it blocks on an     *)
(* HTTP request or ends the process with an exit code, what it printed on  *)
(* standard output and what it printed on standard error.                  *)
(***************************************************************************)
NoOut == [kind |-> "none"]
JSONOut(v) == [kind |-> "json", v |-> v]
TextOut(t) == [kind |-> "text", t |-> t]
\* The response bodies printed as they came, in order.
RawOut(bodies) == [kind |-> "raw", bodies |-> bodies]

NoErrOut == [prefix |-> "", err |-> NoErr]
ErrOut(prefix, err) == [prefix |-> prefix, err |-> err]

\* ret is what the client operation returned to the handler (NoRet: the handler
\* called no operation, or the operation has not returned yet).
NoRet == [called |-> FALSE]
Returned(r) == [called |-> TRUE, err |-> r.err, val |-> r.val]

HBlocked(http) ==
    [blocked |-> TRUE, http |-> http, code |-> -1, out |-> NoOut, errOut |-> NoErrOut,
     ret |-> NoRet]
HExit(code, out, errOut, ret) ==
    [blocked |-> FALSE, http |-> NoHTTP, code |-> code, out |-> out, errOut |-> errOut,
     ret |-> ret]

\* strconv.Atoi on the ticket id argument.
Atoi(s) == IF s = "7" THEN DecOk(7) ELSE DecFail(0)

\* The common ending of a handler: blocked on the operation's request; the
\* operation's error printed and exit 1; or the result printed and exit 0.
Finish(r, out(_)) ==
    IF r.blocked THEN HBlocked(r.http)
    ELSE IF r.err # NoErr THEN HExit(1, NoOut, ErrOut("Error:", r.err), Returned(r))
    ELSE HExit(0, out(r.val), NoErrOut, Returned(r))

\* ticket get <id>
HTicketGet(fl, c, replies) == Finish(GetTicket(c, fl.id, replies), JSONOut)

\* ticket search --raw --email: the user lookup, then the listing of all
\* tickets, each body printed as it came.
HSearchEmailListed(user, tickets) ==
    IF tickets.blocked THEN HBlocked(tickets.http)
    ELSE IF tickets.err # NoErr
         THEN HExit(1, RawOut(<<user.val>>), ErrOut("Error getting tickets:", tickets.err),
                    Returned(tickets))
    ELSE HExit(0, RawOut(<<user.val, tickets.val>>), NoErrOut, Returned(tickets))

HSearchEmailRaw(fl, c, replies) ==
    LET user == GetUserByEmailRaw(c, fl.email, replies)
    IN IF user.blocked THEN HBlocked(user.http)
       ELSE IF user.err # NoErr
            THEN HExit(1, NoOut, ErrOut("Error getting user:", user.err), Returned(user))
       ELSE HSearchEmailListed(user, GetTicketsByStatusRaw(c, 0, Tail(replies)))

\* ticket search that looks at --email before --number.
HTicketSearchEmailFirst(fl, c, replies) ==
    IF fl.email # ""
    THEN IF fl.raw THEN HSearchEmailRaw(fl, c, replies)
         ELSE Finish(SearchTicketsByEmail(c, fl.email, replies),
                     LAMBDA v : JSONOut([total |-> v.data.v.Total,
                                         tickets |-> v.data.v.Tickets,
                                         user |-> v.user]))
    ELSE IF fl.number # ""
    THEN IF fl.raw THEN Finish(GetTicketRaw(c, fl.number, replies), LAMBDA raw : RawOut(<<raw>>))
         ELSE Finish(GetTicket(c, fl.number, replies), JSONOut)
    ELSE IF fl.phone # ""
    THEN HExit(0, TextOut("Phone search requires user lookup"), NoErrOut, NoRet)
    ELSE IF fl.raw
    THEN IF fl.from # "" /\ fl.to # ""
         THEN Finish(GetTicketsByDateRangeRaw(c, fl.from, fl.to, replies), LAMBDA raw : RawOut(<<raw>>))
         ELSE Finish(GetTicketsByStatusRaw(c, fl.status, replies), LAMBDA raw : RawOut(<<raw>>))
    ELSE IF fl.from # "" /\ fl.to # ""
    THEN Finish(GetTicketsByDateRange(c, fl.from, fl.to, replies), JSONOut)
    ELSE Finish(GetTicketsByStatus(c, fl.status, replies), JSONOut)

\* ticket search
HTicketSearch(fl, c, replies) ==
    IF fl.number # ""
    THEN IF fl.raw THEN Finish(GetTicketRaw(c, fl.number, replies), LAMBDA raw : RawOut(<<raw>>))
         ELSE Finish(GetTicket(c, fl.number, replies), JSONOut)
    ELSE IF fl.email # ""
    THEN IF fl.raw THEN HSearchEmailRaw(fl, c, replies)
         ELSE Finish(SearchTicketsByEmail(c, fl.email, replies),
                     LAMBDA v : JSONOut([total |-> v.data.v.Total,
                                         tickets |-> v.data.v.Tickets,
                                         user |-> v.user]))
    ELSE IF fl.phone # ""
    THEN HExit(0, TextOut("Phone search requires user lookup"), NoErrOut, NoRet)
    ELSE IF fl.raw
    THEN IF fl.from # "" /\ fl.to # ""
         THEN Finish(GetTicketsByDateRangeRaw(c, fl.from, fl.to, replies), LAMBDA raw : RawOut(<<raw>>))
         ELSE Finish(GetTicketsByStatusRaw(c, fl.status, replies), LAMBDA raw : RawOut(<<raw>>))
    ELSE IF fl.from # "" /\ fl.to # ""
    THEN Finish(GetTicketsByDateRange(c, fl.from, fl.to, replies), JSONOut)
    ELSE Finish(GetTicketsByStatus(c, fl.status, replies), JSONOut)

\* The CreateTicketParams that ticket create builds from its flags.
CreateParamsOf(fl) ==
    [Title |-> fl.title,
     Subject |-> fl.subject,
     UserID |-> fl.user_id,
     PriorityID |-> fl.priority,
     StatusID |-> fl.status,
     DeptID |-> fl.dept,
     SLAID |-> fl.sla,
     TopicID |-> fl.topic]

\* ticket create
HTicketCreate(fl, c, replies) ==
    Finish(CreateTicket(c, CreateParamsOf(fl), replies),
           LAMBDA id : IF fl.json THEN JSONOut([ticket_id |-> id])
                       ELSE TextOut("Ticket created successfully"))

\* ticket reply <ticketId>
HTicketReply(fl, c, replies) ==
    IF Atoi(fl.ticketId).err THEN HExit(1, NoOut, ErrOut("Invalid ticket ID", NoErr), NoRet)
    ELSE Finish(ReplyToTicket(c, Atoi(fl.ticketId).val, fl.body, fl.staff_id, replies),
                LAMBDA v : IF fl.json THEN JSONOut([status |-> "success"])
                           ELSE TextOut("Reply sent successfully"))

\* ticket close <ticketId>
HTicketClose(fl, c, replies) ==
    IF Atoi(fl.ticketId).err THEN HExit(1, NoOut, ErrOut("Invalid ticket ID", NoErr), NoRet)
    ELSE Finish(CloseTicket(c, [TicketID |-> Atoi(fl.ticketId).val,
                                Body |-> fl.body,
                                StaffID |-> fl.staff_id,
                                StatusID |-> fl.status,
                                TeamID |-> fl.team,
                                DeptID |-> fl.dept,
                                TopicID |-> fl.topic,
                                Username |-> fl.username], replies),
                LAMBDA v : IF fl.json THEN JSONOut([status |-> "success"])
                           ELSE TextOut("Ticket closed successfully"))

\* What user get prints for the users found.
UsersOut(fl, data) ==
    IF fl.json THEN JSONOut(data)
    ELSE IF Len(data.v.Users.elems) = 0 THEN TextOut("No user found")
    ELSE TextOut("users table")

\* user get that prints nothing and exits 0 when no selector is given.
HUserGetLenient(fl, c, replies) ==
    IF fl.id # "" THEN Finish(GetUserByID(c, fl.id, replies), LAMBDA d : UsersOut(fl, d))
    ELSE IF fl.email # ""
    THEN Finish(GetUserByEmail(c, fl.email, replies), LAMBDA d : UsersOut(fl, d))
    ELSE HExit(0, NoOut, NoErrOut, NoRet)

\* user get
HUserGet(fl, c, replies) ==
    IF fl.id # "" THEN Finish(GetUserByID(c, fl.id, replies), LAMBDA d : UsersOut(fl, d))
    ELSE IF fl.email # ""
    THEN Finish(GetUserByEmail(c, fl.email, replies), LAMBDA d : UsersOut(fl, d))
    ELSE HExit(1, NoOut, ErrOut("Please provide --id or --email", NoErr), NoRet)

\* user create
HUserCreate(fl, c, replies) ==
    Finish(CreateUser(c, [Name |-> fl.name,
                          Email |-> fl.email,
                          Password |-> fl.password,
                          Phone |-> fl.phone,
                          Timezone |-> fl.timezone,
                          OrgID |-> fl.org_id,
                          DefaultEmailID |-> 0,
                          Status |-> 1], replies),
           LAMBDA id : IF fl.json THEN JSONOut([user_id |-> id])
                       ELSE TextOut("User created successfully"))

\* What an info command prints.
ListOut(fl, data) == IF fl.json THEN JSONOut(data) ELSE TextOut("table")

\* info departments
HInfoDepartments(fl, c, replies) ==
    Finish(GetDepartments(c, replies), LAMBDA d : ListOut(fl, d))

\* info topics
HInfoTopics(fl, c, replies) == Finish(GetTopics(c, replies), LAMBDA d : ListOut(fl, d))

\* info sla
HInfoSLA(fl, c, replies) == Finish(GetSLAs(c, replies), LAMBDA d : ListOut(fl, d))

\* The Run function of the command, after getClient has returned the client.
Handler(cm, c, replies) ==
    CASE cm.name = "ticket get" -> HTicketGet(cm.flags, c, replies)
      [] cm.name = "ticket search" -> HTicketSearch(cm.flags, c, replies)
      [] cm.name = "ticket create" -> HTicketCreate(cm.flags, c, replies)
      [] cm.name = "ticket reply" -> HTicketReply(cm.flags, c, replies)
      [] cm.name = "ticket close" -> HTicketClose(cm.flags, c, replies)
      [] cm.name = "user get" -> HUserGet(cm.flags, c, replies)
      [] cm.name = "user create" -> HUserCreate(cm.flags, c, replies)
      [] cm.name = "info departments" -> HInfoDepartments(cm.flags, c, replies)
      [] cm.name = "info topics" -> HInfoTopics(cm.flags, c, replies)
      [] OTHER -> HInfoSLA(cm.flags, c, replies)

\* getClient without the credentials check.
getClientUnchecked(v, e) == Ptr(NewClient(GetBaseURL(v, e), GetAPIKey(v, e)))

\* getClient: the client, or no client when the CLI is not configured (the
\* process then exits 1).
getClient(v, e) ==
    IF ~IsConfigured(v, e) THEN NilPtr
    ELSE Ptr(NewClient(GetBaseURL(v, e), GetAPIKey(v, e)))

(***************************************************************************)
(* The inputs: what the user types, what the environment holds and what    *)
(* the server answers.                                                     *)
(***************************************************************************)
FlagURLs == {"https://x", ":bad"}
FlagKeys == {"k1"}
EnvValues(key) == IF key = "base_url" THEN {"", "https://y"} ELSE {"", "k2"}

Totals == 0..MaxTotal
TicketRecs == {[ticket_id |-> 100 + u, user_id |-> u] : u \in 1..MaxUserID}
UserRecs == {[user_id |-> u, name |-> "n"] : u \in 1..MaxUserID}

JTicket(t) == JObj([ticket_id |-> JNum(t.ticket_id), user_id |-> JNum(t.user_id)])
JUser(u) == JObj([user_id |-> JNum(u.user_id), name |-> JStr(u.name)])
JList(f(_), s) == JArr([i \in 1..Len(s) |-> f(s[i])])
JGroup(g) == JList(JTicket, g)

\* The three shapes of a ticket response.
NestedShape(n, groups) == JObj([total |-> JNum(n), tickets |-> JList(JGroup, groups)])
FlatShape(n, recs) == JObj([total |-> JNum(n), tickets |-> JList(JTicket, recs)])
SingleShape(n, r) == JObj([total |-> JNum(n), ticket |-> JTicket(r)])

SeqsUpTo2(S) == {<<>>} \cup {<<a>> : a \in S} \cup {<<a, b>> : a \in S, b \in S}
Groups == {<<a>> : a \in TicketRecs} \cup {<<p[1], p[2]>> : p \in {q \in TicketRecs \X TicketRecs : q[1] # q[2]}}
Listings == {<<>>} \cup {<<g>> : g \in Groups}
              \cup {<<g, h>> : g \in {<<r>> : r \in TicketRecs}, h \in Groups}

\* Payloads that are none of the three shapes.
OddTicketBodies ==
    {JAbsent, JNull, JObj([other |-> JNum(1)]), JObj([total |-> JNum(1)]),
     JObj([total |-> JStr("1"), tickets |-> JArr(<<>>)]),
     JObj([total |-> JNum(1), tickets |-> JStr("none")]),
     JArr(<<>>), JNum(7)}

TicketBodies ==
    {NestedShape(n, <<<<r>>>>) : n \in Totals, r \in TicketRecs}
      \cup {NestedShape(Len(l), l) : l \in Listings}
      \cup {FlatShape(n, <<r>>) : n \in Totals, r \in TicketRecs}
      \cup {FlatShape(2, g) : g \in {h \in Groups : Len(h) = 2}}
      \cup {SingleShape(n, r) : n \in Totals, r \in TicketRecs}
      \cup OddTicketBodies

UserBodies ==
    {JObj([total |-> JNum(Len(us)), users |-> JList(JUser, us)]) : us \in SeqsUpTo2(UserRecs)}
      \cup {JAbsent, JNull, JObj([total |-> JNum(0)]),
            JObj([total |-> JNum(1), users |-> JStr("none")]),
            JObj([total |-> JNum(1), users |-> JArr(<<JObj([user_id |-> JStr("1")])>>)])}

IntBodies == {JNum(5), JStr("5"), JNull, JAbsent}

ListBodies(key, idKey, nameKey) ==
    {JAbsent, JNull, JStr("none"), JObj([total |-> JNum(1)])}
      \cup {JObj([k \in {"total", key} |->
                    IF k = "total" THEN JNum(1)
                    ELSE JArr(<<JObj([f \in {idKey, nameKey} |-> IF f = idKey THEN i ELSE JStr("a")])>>)]) :
              i \in {JNum(1), JStr("1")}}

AnyBodies == {JNull, JAbsent, JStr("none")}

\* The payloads the server may answer a request with, by the request's resource.
BodiesFor(req) ==
    CASE req.Query = "ticket" /\ req.Condition \in {"specific", "all"} -> TicketBodies
      [] req.Query = "ticket" /\ req.Condition = "add" -> IntBodies
      [] req.Query = "ticket" -> AnyBodies
      [] req.Query = "user" /\ req.Condition = "add" -> IntBodies
      [] req.Query = "user" -> UserBodies
      [] req.Query = "department" -> ListBodies("departments", "id", "name")
      [] req.Query = "topics" -> ListBodies("topics", "topic_id", "topic")
      [] OTHER -> ListBodies("sla", "id", "name")

\* What an "Error" envelope may carry as data: nothing, something no operation
\* decodes, a well-formed ticket payload, a well-formed identifier.
ErrorBodies ==
    {JAbsent, JStr("junk"), JNum(5)} \cup {NestedShape(1, <<<<r>>>>) : r \in TicketRecs}

Envelope(status, message, data) ==
    [kind |-> "json", status |-> status, message |-> message, data |-> data]

\* What one HTTPClient.Do call may deliver: a transport failure, an unreadable
\* or undecodable body, an "Error" envelope (whatever its data), or an envelope
\* of any other status.
RepliesFor(req) ==
    {[kind |-> "do_fail"], [kind |-> "read_fail"], [kind |-> "bad_body"]}
      \cup {Envelope("Error", "denied", d) : d \in ErrorBodies}
      \cup {Envelope("Error", "not found", JAbsent)}
      \cup {Envelope("Success", "", d) : d \in BodiesFor(req)}
      \cup {Envelope(st, "", d) : st \in {"error", ""}, d \in {JNull}}

TicketGetFlags == [id : {"7", "API1"}]
TicketSearchFlags ==
    [raw : BOOLEAN, number : {"", "API1"}, email : {"", "a@x"}, phone : {"", "555"},
     status : 0..1, from : {"", "2024-01-01"}, to : {"", "2024-12-31"}]
TicketCreateFlags ==
    {[title |-> t, subject |-> s, user_id |-> b, priority |-> b + 10, status |-> b + 20,
      dept |-> b + 30, sla |-> b + 40, topic |-> b + 50, json |-> j] :
        t \in {"t1", "t2"}, s \in {"s1", "t1"}, b \in 0..MaxParam, j \in BOOLEAN}
TicketReplyFlags == [ticketId : {"7", "abc"}, body : {"b"}, staff_id : {1}, json : BOOLEAN]
TicketCloseFlags ==
    [ticketId : {"7", "abc"}, body : {"b"}, staff_id : {1}, username : {"admin"},
     status : {3}, team : {0}, dept : {1}, topic : {1}, json : BOOLEAN]
UserGetFlags == [id : {"", "5"}, email : {"", "a@x"}, json : BOOLEAN]
UserCreateFlags ==
    [name : {"n"}, email : {"a@x"}, password : {"pw"}, phone : {"555"},
     timezone : {"America/New_York"}, org_id : 0..MaxParam, json : BOOLEAN]
InfoFlags == [json : BOOLEAN]

\* Commands cobra validates before Run: an argument count or a required flag.
ValidatedCommands ==
    {"ticket get", "ticket create", "ticket reply", "ticket close", "user create"}

(***************************************************************************)
(* The state.                                                              *)
(*   env      the environment's two variables                              *)
(*   file     the persisted config file                                    *)
(*   pc       "idle" (no process), "waiting" (a process blocked in         *)
(*            HTTPClient.Do), "exited"                                     *)
(*   cmd      the command of the process and its flags                     *)
(*   cfg      the process's viper handle                                   *)
(*   client   the client getClient built, if any                           *)
(*   reqlog   the HTTP requests the process has issued, in order           *)
(*   replies  the replies it has received, in order                        *)
(*   result   what the client or config operation returned to the handler  *)
(*   exit     the exit code, standard output and standard error            *)
(*   calls    the config package's functions the process has run, in       *)
(*            order: init, then each SetBaseURL, SetAPIKey and Clear        *)
(***************************************************************************)
VARIABLES env, file, pc, cmd, cfg, client, reqlog, replies, result, exit, calls

vars == <<env, file, pc, cmd, cfg, client, reqlog, replies, result, exit, calls>>

\* run: whether cobra called the command's Run function.
NoCmd == [name |-> "", flags |-> <<>>, run |-> FALSE]
Command(name, fl) == [name |-> name, flags |-> fl, run |-> TRUE]
NoViper == init(NoFile)
Running == [code |-> -1, out |-> NoOut, errOut |-> NoErrOut]
Exited(code, out, errOut) == [code |-> code, out |-> out, errOut |-> errOut]

\* A call of the config package: init with the file it read, or a Set or Clear
\* with the value given and whether its Save succeeded.
Call(op, value, ok) == [op |-> op, value |-> value, ok |-> ok]
InitCall(f) == Call("init", f, TRUE)

Init ==
    /\ env = [k \in Keys |-> ""]
    /\ file = NoFile
    /\ pc = "idle"
    /\ cmd = NoCmd
    /\ cfg = NoViper
    /\ client = NilPtr
    /\ reqlog = <<>>
    /\ replies = <<>>
    /\ result = NoRet
    /\ exit = Running
    /\ calls = <<>>

\* The environment changes between two invocations.
SetEnv ==
    /\ pc = "idle"
    /\ \E k \in Keys : \E v \in EnvValues(k) :
         /\ env[k] # v
         /\ env' = [env EXCEPT ![k] = v]
    /\ UNCHANGED <<file, pc, cmd, cfg, client, reqlog, replies, result, exit, calls>>

\* The handler has blocked on a request or the process has ended.
Advance(h) ==
    IF h.blocked
    THEN /\ pc' = "waiting"
         /\ reqlog' = Append(reqlog, h.http)
         /\ result' = NoRet
         /\ exit' = Running
    ELSE /\ pc' = "exited"
         /\ reqlog' = reqlog
         /\ result' = h.ret
         /\ exit' = Exited(h.code, h.out, h.errOut)

\* A ticket, user or info command: the process starts (init), the handler calls
\* getClient and runs up to its first HTTP request or to its end.
RunClientCommand(name, fl) ==
    /\ pc = "idle"
    /\ cfg' = init(file)
    /\ cmd' = Command(name, fl)
    /\ client' = getClient(cfg', env)
    /\ replies' = <<>>
    /\ IF client'.nil
       THEN /\ pc' = "exited"
            /\ reqlog' = <<>>
            /\ result' = NoRet
            /\ exit' = Exited(1, NoOut, ErrOut("CLI not configured", NoErr))
       ELSE Advance(Handler(cmd', client'.v, <<>>))
    /\ calls' = <<InitCall(file)>>
    /\ UNCHANGED <<env, file>>

CmdTicketGet == \E fl \in TicketGetFlags : RunClientCommand("ticket get", fl)
\* ticket search with structured output (the raw mode runs under SearchSpec).
CmdTicketSearch ==
    \E fl \in {f \in TicketSearchFlags : ~f.raw} : RunClientCommand("ticket search", fl)
CmdTicketCreate == \E fl \in TicketCreateFlags : RunClientCommand("ticket create", fl)
CmdTicketReply == \E fl \in TicketReplyFlags : RunClientCommand("ticket reply", fl)
CmdTicketClose == \E fl \in TicketCloseFlags : RunClientCommand("ticket close", fl)
CmdUserGet == \E fl \in UserGetFlags : RunClientCommand("user get", fl)
CmdUserCreate == \E fl \in UserCreateFlags : RunClientCommand("user create", fl)
CmdInfo ==
    \E name \in {"info departments", "info topics", "info sla"} :
      \E fl \in InfoFlags : RunClientCommand(name, fl)

\* cobra rejects the command line (argument count, missing required flag):
\* Execute returns the error without calling Run, and main exits 1.
UsageError ==
    /\ pc = "idle"
    /\ \E name \in ValidatedCommands : cmd' = [name |-> name, flags |-> <<>>, run |-> FALSE]
    /\ cfg' = init(file)
    /\ client' = NilPtr
    /\ reqlog' = <<>>
    /\ replies' = <<>>
    /\ result' = NoRet
    /\ pc' = "exited"
    /\ exit' = Exited(1, NoOut, ErrOut("usage", NoErr))
    /\ calls' = <<InitCall(file)>>
    /\ UNCHANGED <<env, file>>

\* HTTPClient.Do returns: the handler goes on with the reply, up to its next
\* request or to its end.
HTTPRespond ==
    /\ pc = "waiting"
    /\ \E reply \in RepliesFor(reqlog[Len(reqlog)].Body) :
         /\ replies' = Append(replies, reply)
         /\ Advance(Handler(cmd, client.v, replies'))
    /\ UNCHANGED <<env, file, cmd, cfg, client, calls>>

\* config set --url <url> --key <key>
CmdConfigSet ==
    /\ pc = "idle"
    /\ \E url \in FlagURLs \cup {""}, key \in FlagKeys \cup {""}, ok1 \in BOOLEAN, ok2 \in BOOLEAN :
         LET v0 == init(file)
             s1 == IF url # "" THEN SetBaseURL(v0, env, file, url, ok1)
                   ELSE [v |-> v0, f |-> file, err |-> FALSE]
             s2 == IF key # "" THEN SetAPIKey(s1.v, env, s1.f, key, ok2)
                   ELSE [v |-> s1.v, f |-> s1.f, err |-> FALSE]
         IN /\ cmd' = Command("config set", [url |-> url, key |-> key])
            /\ calls' = <<InitCall(file)>>
                          \o (IF url # "" THEN <<Call("SetBaseURL", url, ~s1.err)>> ELSE <<>>)
                          \o (IF key # "" /\ ~s1.err THEN <<Call("SetAPIKey", key, ~s2.err)>>
                              ELSE <<>>)
            /\ IF s1.err
               THEN /\ cfg' = s1.v
                    /\ file' = s1.f
                    /\ result' = Returned(Ret(Err("save", ""), NilPtr))
                    /\ exit' = Exited(1, NoOut, ErrOut("Error setting URL:", Err("save", "")))
               ELSE IF s2.err
               THEN /\ cfg' = s2.v
                    /\ file' = s2.f
                    /\ result' = Returned(Ret(Err("save", ""), NilPtr))
                    /\ exit' = Exited(1, NoOut, ErrOut("Error setting API key:", Err("save", "")))
               ELSE /\ cfg' = s2.v
                    /\ file' = s2.f
                    /\ result' = IF url = "" /\ key = "" THEN NoRet
                                  ELSE Returned(Ret(NoErr, NilPtr))
                    /\ exit' = Exited(0,
                                      IF url = "" /\ key = ""
                                      THEN TextOut("Please provide --url and/or --key")
                                      ELSE TextOut("set"),
                                      NoErrOut)
    /\ pc' = "exited"
    /\ UNCHANGED <<env, client, reqlog, replies>>

\* config show
CmdConfigShow ==
    /\ pc = "idle"
    /\ cfg' = init(file)
    /\ cmd' = Command("config show", <<>>)
    /\ exit' = Exited(0, JSONOut([url |-> GetBaseURL(cfg', env),
                                  key |-> GetAPIKey(cfg', env),
                                  urlSource |-> GetConfigSource(cfg', env).baseURLSource,
                                  keySource |-> GetConfigSource(cfg', env).apiKeySource]),
                      NoErrOut)
    /\ pc' = "exited"
    /\ calls' = <<InitCall(file)>>
    /\ UNCHANGED <<env, file, client, reqlog, replies, result>>

\* config clear
CmdConfigClear ==
    /\ pc = "idle"
    /\ \E ok \in BOOLEAN :
         LET c == Clear(init(file), env, file, ok)
         IN /\ cfg' = c.v
            /\ file' = c.f
            /\ result' = Returned(Ret(IF c.err THEN Err("save", "") ELSE NoErr, NilPtr))
            /\ calls' = <<InitCall(file), Call("Clear", "", ok)>>
            /\ exit' = IF c.err
                       THEN Exited(1, NoOut, ErrOut("Error clearing config:", Err("save", "")))
                       ELSE Exited(0, TextOut("Configuration cleared"), NoErrOut)
    /\ cmd' = Command("config clear", <<>>)
    /\ pc' = "exited"
    /\ UNCHANGED <<env, client, reqlog, replies>>

\* The process is gone; the environment and the file stay.
ProcessExit ==
    /\ pc = "exited"
    /\ pc' = "idle"
    /\ cmd' = NoCmd
    /\ cfg' = NoViper
    /\ client' = NilPtr
    /\ reqlog' = <<>>
    /\ replies' = <<>>
    /\ result' = NoRet
    /\ exit' = Running
    /\ calls' = <<>>
    /\ UNCHANGED <<env, file>>

Next ==
    \/ SetEnv
    \/ CmdConfigSet
    \/ CmdConfigShow
    \/ CmdConfigClear
    \/ CmdTicketGet
    \/ CmdTicketSearch
    \/ CmdTicketCreate
    \/ CmdTicketReply
    \/ CmdTicketClose
    \/ CmdUserGet
    \/ CmdUserCreate
    \/ CmdInfo
    \/ UsageError
    \/ HTTPRespond
    \/ ProcessExit

Spec == Init /\ [][Next]_vars

(***************************************************************************)
(* The config package on its own: one process that calls SetBaseURL,       *)
(* SetAPIKey and Clear in any order, up to MaxCalls times, while its       *)
(* environment changes (os.Setenv).  The process starts with any           *)
(* environment and any file the CLI can have left.                         *)
(***************************************************************************)
StartFiles ==
    {NoFile} \cup {[exists |-> TRUE, base_url |-> u, api_key |-> k] :
                     u \in {"", "https://x"}, k \in {"", "k1"}}

ConfigInit ==
    /\ env \in [Keys -> {"", "https://y", "k2"}]
    /\ \A k \in Keys : env[k] \in EnvValues(k)
    /\ file \in StartFiles
    /\ cfg = init(file)
    /\ calls = <<InitCall(file)>>
    /\ pc = "library"
    /\ cmd = NoCmd
    /\ client = NilPtr
    /\ reqlog = <<>>
    /\ replies = <<>>
    /\ result = NoRet
    /\ exit = Running

\* The process has called a Set or a Clear: s is what it gave.
Called(op, value, ok, s) ==
    /\ cfg' = s.v
    /\ file' = s.f
    /\ result' = Returned(Ret(IF s.err THEN Err("save", "") ELSE NoErr, NilPtr))
    /\ calls' = Append(calls, Call(op, value, ok))
    /\ UNCHANGED <<env, pc, cmd, client, reqlog, replies, exit>>

CallSetBaseURL ==
    /\ pc = "library"
    /\ Len(calls) <= MaxCalls
    /\ \E url \in FlagURLs \cup {""}, ok \in BOOLEAN :
         Called("SetBaseURL", url, ok, SetBaseURL(cfg, env, file, url, ok))

CallSetAPIKey ==
    /\ pc = "library"
    /\ Len(calls) <= MaxCalls
    /\ \E key \in FlagKeys \cup {""}, ok \in BOOLEAN :
         Called("SetAPIKey", key, ok, SetAPIKey(cfg, env, file, key, ok))

CallClear ==
    /\ pc = "library"
    /\ Len(calls) <= MaxCalls
    /\ \E ok \in BOOLEAN : Called("Clear", "", ok, Clear(cfg, env, file, ok))

\* os.Setenv / os.Unsetenv in the process.
EnvChanges ==
    /\ pc = "library"
    /\ \E k \in Keys : \E v \in EnvValues(k) :
         /\ env[k] # v
         /\ env' = [env EXCEPT ![k] = v]
    /\ UNCHANGED <<file, pc, cmd, cfg, client, reqlog, replies, result, exit, calls>>

ConfigNext ==
    \/ CallSetBaseURL
    \/ CallSetAPIKey
    \/ CallClear
    \/ EnvChanges

ConfigSpec == ConfigInit /\ [][ConfigNext]_vars

(***************************************************************************)
(* The ticket search subcommand on its own, in both output modes: the      *)
(* process is run again and again with any flags, under credentials the    *)
(* config commands can have left (none, usable ones, or a base URL that    *)
(* cannot be parsed).                                                      *)
(***************************************************************************)
SearchInit ==
    /\ env \in {[k \in Keys |-> ""], [base_url |-> "https://y", api_key |-> ""]}
    /\ file \in {NoFile} \cup {[exists |-> TRUE, base_url |-> u, api_key |-> "k1"] : u \in FlagURLs}
    /\ pc = "idle"
    /\ cmd = NoCmd
    /\ cfg = NoViper
    /\ client = NilPtr
    /\ reqlog = <<>>
    /\ replies = <<>>
    /\ result = NoRet
    /\ exit = Running
    /\ calls = <<>>

\* ticket search with any flags, --raw or not.
CmdTicketSearchAny == \E fl \in TicketSearchFlags : RunClientCommand("ticket search", fl)

SearchNext ==
    \/ CmdTicketSearchAny
    \/ HTTPRespond
    \/ ProcessExit

SearchSpec == SearchInit /\ [][SearchNext]_vars

(***************************************************************************)
(* Properties.                                                             *)
(***************************************************************************)
LastReply == replies[Len(replies)]

\* The process ran GetTicket (ticket get, or ticket search --number).
IsGetTicketCmd ==
    cmd.run /\ (cmd.name = "ticket get" \/ (cmd.name = "ticket search" /\ cmd.flags.number # ""))

\* GetTicket has returned after a reply that is an envelope of a status other
\* than "Error".
GetTicketAnswered ==
    /\ pc = "exited"
    /\ IsGetTicketCmd
    /\ Len(replies) = 1
    /\ IsEnvelope(replies[1])
    /\ replies[1].status # "Error"

Canonical(n, r) == Ptr([Total |-> n, Tickets |-> Slice(<<Slice(<<r>>)>>)])

\* C1: for every ticket record r and total n, GetTicket returns the canonical
\* {total: n, tickets: [[r]]} without error, whichever of the three shapes
\* (nested-array, flat-array, single-object) the response data carries r in.
C1_ThreeShapesOneResult ==
    \A n \in Totals, r \in TicketRecs :
      \A d \in {NestedShape(n, <<<<r>>>>), FlatShape(n, <<r>>), SingleShape(n, r)} :
        (GetTicketAnswered /\ replies[1].data = d)
          => result = [called |-> TRUE, err |-> NoErr, val |-> Canonical(n, r)]

\* The data is in none of the three shapes: no data, a null, a value that is no
\* object, or an object with neither a tickets nor a ticket key.
MatchesNoShape(d) ==
    \/ d.kind # "obj"
    \/ d.kind = "obj" /\ "tickets" \notin DOMAIN d.o /\ "ticket" \notin DOMAIN d.o

FormatError == Err("failed to parse ticket data: unexpected response format", "")

\* C2: for every envelope of a status other than "Error" whose data matches none
\* of the three shapes, GetTicket fails with the "unexpected response format"
\* error and returns no ticket data.
C2_NoShapeIsFormatError ==
    (GetTicketAnswered /\ MatchesNoShape(replies[1].data))
      => result = [called |-> TRUE, err |-> FormatError, val |-> NilPtr]

\* The process runs a ticket, user or info command whose Run function was called.
IsClientCmd ==
    cmd.run /\ cmd.name \notin {"", "config set", "config show", "config clear"}

\* The process runs SearchTicketsByEmail (ticket search --email, no --number).
IsSearchByEmail ==
    cmd.run /\ cmd.name = "ticket search" /\ cmd.flags.number = "" /\ cmd.flags.email # ""

\* The operation returned no result value: the zero value of its result type
\* (for the search, no ticket collection).
NoResultValue ==
    CASE cmd.name \in {"ticket create", "user create"} -> result.val = 0
      [] IsSearchByEmail -> result.val.data = NilPtr
      [] OTHER -> result.val = NilPtr

\* C3: whenever the reply an operation has just received is an envelope of
\* status "Error", the operation has failed with the API error carrying the
\* envelope's message, whatever the data: the process has ended with exit code 1
\* and that error on standard error, nothing is printed on standard output, no
\* result value is returned and no further request is issued.
C3_ErrorStatusIsAPIError ==
    (replies # <<>> /\ IsEnvelope(LastReply) /\ LastReply.status = "Error")
      => /\ pc = "exited"
         /\ result.called
         /\ result.err = Err("API error", LastReply.message)
         /\ NoResultValue
         /\ exit = Exited(1, NoOut, ErrOut("Error:", result.err))
         /\ Len(reqlog) = Len(replies)

\* An "Error" envelope whose data is a well-formed ticket payload has been
\* answered to GetTicket, which has failed with the API error.
C3_Witness ==
    /\ pc = "exited"
    /\ cmd.name = "ticket get"
    /\ replies = <<Envelope("Error", "denied", NestedShape(1, <<<<[ticket_id |-> 101, user_id |-> 1]>>>>))>>
    /\ result = [called |-> TRUE, err |-> Err("API error", "denied"), val |-> NilPtr]

\* What a key resolves to by the documented rule: the environment variable when
\* it is not empty, else the value in the persisted file, else "".
Resolved(key) ==
    IF env[key] # "" THEN env[key]
    ELSE IF file.exists THEN file[key]
    ELSE ""

\* The process is one that reads the configuration: config show, or a command
\* that calls getClient.
ReadsConfig == pc # "idle" /\ (cmd.name = "config show" \/ IsClientCmd)

\* C4: in every process that reads the configuration, GetBaseURL and GetAPIKey
\* each return the environment variable's value when it is not empty and the
\* persisted value of that key (default "") otherwise, one key independently of
\* the other; config show prints these values and getClient builds the client
\* from them.
C4_EnvThenPersisted ==
    ReadsConfig
      => /\ GetBaseURL(cfg, env) = Resolved("base_url")
         /\ GetAPIKey(cfg, env) = Resolved("api_key")
         /\ cmd.name = "config show"
              => exit.out.v.url = Resolved("base_url") /\ exit.out.v.key = Resolved("api_key")
         /\ (IsClientCmd /\ ~client.nil)
              => client.v = NewClient(Resolved("base_url"), Resolved("api_key"))

\* config show with the base URL taken from the environment over a different
\* persisted value, and the API key taken from the file.
C4_Witness ==
    /\ pc = "exited"
    /\ cmd.name = "config show"
    /\ env = [base_url |-> "https://y", api_key |-> ""]
    /\ file = [exists |-> TRUE, base_url |-> "https://x", api_key |-> "k1"]
    /\ exit.out.v.url = "https://y"
    /\ exit.out.v.key = "k1"

BothResolved == Resolved("base_url") # "" /\ Resolved("api_key") # ""

\* C5: in every process that reads the configuration, whatever the environment
\* holds and whatever config set and config clear have left in the file,
\* IsConfigured() is true exactly when the resolved base URL and the resolved
\* API key are both non-empty; getClient builds a client exactly then.
C5_ConfiguredIffBoth ==
    ReadsConfig
      => /\ IsConfigured(cfg, env) <=> BothResolved
         /\ IsClientCmd => (client.nil <=> ~BothResolved)

\* A command found the CLI not configured with the base URL resolved from the
\* environment and the API key empty in the persisted file.
C5_Witness ==
    /\ pc = "exited"
    /\ IsClientCmd
    /\ env["base_url"] # ""
    /\ file.exists
    /\ Resolved("api_key") = ""
    /\ ~IsConfigured(cfg, env)
    /\ client.nil

\* The user lookup has succeeded with zero users.
LookupFoundNobody ==
    /\ IsSearchByEmail
    /\ replies # <<>>
    /\ IsEnvelope(replies[1])
    /\ replies[1].status # "Error"
    /\ ~DecodeUserData(replies[1].data).err
    /\ Len(DecodeUserData(replies[1].data).val.Users.elems) = 0

\* C6: when the user lookup succeeds with zero users, SearchTicketsByEmail has
\* returned total 0 with an empty (non-nil) tickets sequence, a nil user and no
\* error, the lookup being the only request issued.
C6_NoUserIsEmptySuccess ==
    LookupFoundNobody
      => /\ pc = "exited"
         /\ result = [called |-> TRUE, err |-> NoErr,
                      val |-> [data |-> Ptr([Total |-> 0, Tickets |-> Slice(<<>>)]),
                               user |-> NilPtr]]
         /\ exit.code = 0
         /\ Len(reqlog) = 1
         /\ reqlog[1].Body.Query = "user"

\* The lookup answered {total: 0, users: []} and the search has returned.
C6_Witness ==
    /\ pc = "exited"
    /\ IsSearchByEmail
    /\ replies = <<Envelope("Success", "", JObj([total |-> JNum(0), users |-> JArr(<<>>)]))>>
    /\ result.called
    /\ result.err = NoErr
    /\ result.val.user = NilPtr

CreateTicketKeys ==
    {"title", "subject", "user_id", "priority_id", "status_id", "dept_id", "sla_id", "topic_id"}

\* C7: every request CreateTicket issues has query "ticket", condition "add" and
\* a parameters mapping whose keys are exactly title, subject, user_id,
\* priority_id, status_id, dept_id, sla_id and topic_id, each carrying the value
\* of the CreateTicketParams field of the same name.
C7_CreateTicketEnvelope ==
    (cmd.run /\ cmd.name = "ticket create")
      => \A i \in 1..Len(reqlog) :
           /\ reqlog[i].Body.Query = "ticket"
           /\ reqlog[i].Body.Condition = "add"
           /\ DOMAIN reqlog[i].Body.Parameters = CreateTicketKeys
           /\ reqlog[i].Body.Parameters.title = CreateParamsOf(cmd.flags).Title
           /\ reqlog[i].Body.Parameters.subject = CreateParamsOf(cmd.flags).Subject
           /\ reqlog[i].Body.Parameters.user_id = CreateParamsOf(cmd.flags).UserID
           /\ reqlog[i].Body.Parameters.priority_id = CreateParamsOf(cmd.flags).PriorityID
           /\ reqlog[i].Body.Parameters.status_id = CreateParamsOf(cmd.flags).StatusID
           /\ reqlog[i].Body.Parameters.dept_id = CreateParamsOf(cmd.flags).DeptID
           /\ reqlog[i].Body.Parameters.sla_id = CreateParamsOf(cmd.flags).SLAID
           /\ reqlog[i].Body.Parameters.topic_id = CreateParamsOf(cmd.flags).TopicID

\* CreateTicket has sent its request for params whose eight fields all differ.
C7_Witness ==
    /\ pc = "waiting"
    /\ cmd.name = "ticket create"
    /\ cmd.flags.title = "t2"
    /\ cmd.flags.subject = "s1"
    /\ cmd.flags.user_id = 1
    /\ Len(reqlog) = 1
    /\ reqlog[1].Body.Parameters =
         [title |-> "t2", subject |-> "s1", user_id |-> 1, priority_id |-> 11,
          status_id |-> 21, dept_id |-> 31, sla_id |-> 41, topic_id |-> 51]

\* C8: every HTTP request a process issues has method GET when the operation is
\* GetTicket (ticket get, ticket search --number) and method POST when it is any
\* other operation, both requests of SearchTicketsByEmail included.
C8_GetOnlyForGetTicket ==
    \A i \in 1..Len(reqlog) :
      /\ IsGetTicketCmd => reqlog[i].Method = "GET"
      /\ ~IsGetTicketCmd => reqlog[i].Method = "POST"
      /\ reqlog[i].Method = "GET"
           <=> (reqlog[i].Body.Query = "ticket" /\ reqlog[i].Body.Condition = "specific")

\* GetTicket has issued its request, a GET, and has returned a ticket.
C8_Witness ==
    /\ pc = "exited"
    /\ cmd.name = "ticket get"
    /\ Len(reqlog) = 1
    /\ reqlog[1].Method = "GET"
    /\ reqlog[1].Body = Request("ticket", "specific", "", [id |-> "7"])
    /\ result.called
    /\ result.err = NoErr

\* The user lookup of the search has given a user: a reply that is an envelope
\* of a status other than "Error" whose data decodes with at least one user.
LookupFoundUser ==
    /\ replies # <<>>
    /\ IsEnvelope(replies[1])
    /\ replies[1].status # "Error"
    /\ ~DecodeUserData(replies[1].data).err
    /\ Len(DecodeUserData(replies[1].data).val.Users.elems) >= 1

\* SearchTicketsByEmail issues at most two requests, one after the other: the
\* user lookup, then the listing of all tickets, the listing only once the
\* lookup has given a user; a lookup that gave none ends the operation.
SearchIsSequential ==
    IsSearchByEmail
      => /\ Len(reqlog) <= 2
         /\ Len(reqlog) >= 1 => reqlog[1].Body = Request("user", "specific", "email",
                                                         [email |-> cmd.flags.email])
         /\ Len(reqlog) = 2
              => /\ reqlog[2].Body = Request("ticket", "all", "status", [status |-> 0])
                 /\ LookupFoundUser
         /\ (replies # <<>> /\ ~LookupFoundUser) => pc = "exited" /\ Len(reqlog) = 1
         /\ (Len(replies) = 2 /\ result.called /\ result.err # NoErr)
              => pc = "exited" /\ Len(reqlog) = 2

\* At most one request is in flight, and the process waits exactly while one is.
OneInFlight ==
    /\ Len(replies) <= Len(reqlog)
    /\ Len(reqlog) <= Len(replies) + 1
    /\ pc = "waiting" <=> Len(reqlog) = Len(replies) + 1

\* C9 (as stated): every operation other than the search has issued exactly one
\* HTTP request when it returns, whether it succeeded or failed, and the search
\* issues at most two, sequentially.
C9_ExactlyOneRequest ==
    /\ (pc = "exited" /\ IsClientCmd /\ result.called /\ ~IsSearchByEmail) => Len(reqlog) = 1
    /\ SearchIsSequential
    /\ OneInFlight

\* C9 (amended): no operation retries.  Every operation other than the search
\* issues at most one HTTP request: exactly one when the request can be built
\* from the base URL, and none, failing with "failed to create request", when
\* it cannot.  The search issues at most two, sequentially, the listing only
\* after the lookup has given a user, and a failure of either call ends it.
C9_NoRetry ==
    /\ (IsClientCmd /\ ~IsSearchByEmail) => Len(reqlog) <= 1
    /\ (pc = "exited" /\ IsClientCmd /\ result.called /\ ~IsSearchByEmail
          /\ client.v.BaseURL \notin InvalidURLs)
         => Len(reqlog) = 1
    /\ (pc = "exited" /\ IsClientCmd /\ result.called /\ client.v.BaseURL \in InvalidURLs)
         => Len(reqlog) = 0 /\ result.err = Err("failed to create request", "")
    /\ SearchIsSequential
    /\ OneInFlight

\* The search has issued its two requests and has ended on the failure of the
\* second, without another request.
C9_Witness ==
    /\ pc = "exited"
    /\ IsSearchByEmail
    /\ Len(reqlog) = 2
    /\ Len(replies) = 2
    /\ replies[2] = [kind |-> "do_fail"]
    /\ result.called
    /\ result.err = Err("request failed", "")

\* C10: when the Run function of a ticket, user or info command finds
\* IsConfigured() false, the process has ended with exit code 1 and the
\* not-configured error on standard error, with no client constructed, no
\* operation called and no HTTP request issued.
C10_NotConfiguredExitsFirst ==
    (pc # "idle" /\ IsClientCmd /\ ~IsConfigured(cfg, env))
      => /\ pc = "exited"
         /\ exit = Exited(1, NoOut, ErrOut("CLI not configured", NoErr))
         /\ client = NilPtr
         /\ result = NoRet
         /\ reqlog = <<>>
         /\ replies = <<>>

\* user get ran with a base URL in the environment and no API key anywhere.
C10_Witness ==
    /\ pc = "exited"
    /\ cmd.run
    /\ cmd.name = "user get"
    /\ env = [base_url |-> "https://y", api_key |-> ""]
    /\ ~file.exists
    /\ exit.code = 1
    /\ exit.errOut.prefix = "CLI not configured"
    /\ reqlog = <<>>

\* The errors a Run function meets: the CLI is not configured; the client or
\* config operation it called returned an error; the ticket id is no integer;
\* user get was given neither --id nor --email.
NotConfigured == IsClientCmd /\ client.nil
OperationFailed == cmd.run /\ result.called /\ result.err # NoErr
InvalidTicketID ==
    IsClientCmd /\ cmd.name \in {"ticket reply", "ticket close"} /\ Atoi(cmd.flags.ticketId).err
NoUserSelector ==
    IsClientCmd /\ cmd.name = "user get" /\ cmd.flags.id = "" /\ cmd.flags.email = ""
RunFailed == NotConfigured \/ OperationFailed \/ InvalidTicketID \/ NoUserSelector

\* cobra rejected the command line: Run was not called.
UsageRejected == cmd.name # "" /\ ~cmd.run

IsListingCmd ==
    /\ cmd.run
    /\ cmd.name = "ticket search"
    /\ cmd.flags.number = ""
    /\ cmd.flags.email = ""
    /\ cmd.flags.phone = ""

\* An operation that returns a ticket collection has returned one without error.
TicketsReturned ==
    /\ pc = "exited"
    /\ IsGetTicketCmd \/ IsSearchByEmail \/ IsListingCmd
    /\ result.called
    /\ result.err = NoErr

\* The tickets of the collection returned.
ReturnedTickets ==
    IF IsSearchByEmail THEN result.val.data.v.Tickets ELSE result.val.v.Tickets

\* C12: every ticket collection an operation returns without error holds a
\* sequence of groups that is not nil (null in the output), each group a
\* sequence of records that is not nil.
C12_TicketsNeverNil ==
    TicketsReturned
      => /\ ~ReturnedTickets.nil
         /\ \A i \in 1..Len(ReturnedTickets.elems) : ~ReturnedTickets.elems[i].nil

\* The groups of a listing as the slices they decode to.
GroupSlices(l) == [i \in 1..Len(l) |-> Slice(l[i])]

\* The value GetTicket has returned is that of the first decode that succeeds
\* on the data d, in the order nested-array, flat-array, single-object.
FirstSuccessOn(d) ==
    IF ~DecodeTicketData(d).err
    THEN result = [called |-> TRUE, err |-> NoErr, val |-> Ptr(DecodeTicketData(d).val)]
    ELSE IF ~DecodeFlatData(d).err
    THEN /\ result.err = NoErr
         /\ result.val.v.Total = DecodeFlatData(d).val.Total
         /\ Len(result.val.v.Tickets.elems) = Len(DecodeFlatData(d).val.Tickets.elems)
         /\ \A i \in 1..Len(result.val.v.Tickets.elems) :
              result.val.v.Tickets.elems[i] = Slice(<<DecodeFlatData(d).val.Tickets.elems[i]>>)
    ELSE IF ~DecodeSingleData(d).err
    THEN result = [called |-> TRUE, err |-> NoErr,
                   val |-> Ptr([Total |-> DecodeSingleData(d).val.Total,
                                Tickets |-> Slice(<<Slice(<<DecodeSingleData(d).val.Ticket>>)>>)])]
    ELSE result = [called |-> TRUE, err |-> FormatError, val |-> NilPtr]

\* C13: GetTicket returns the result of the first of the three decodes, in the
\* order nested-array, flat-array, single-object, that succeeds on the data; a
\* response in nested-array shape is returned with its total and its groups
\* (number, order, contents) unchanged; and the result of a later decode holds
\* nothing of an earlier failed one.
C13_FirstDecodeWins ==
    GetTicketAnswered
      => /\ FirstSuccessOn(replies[1].data)
         /\ \A n \in Totals, l \in Listings :
              replies[1].data = NestedShape(n, l)
                => result = [called |-> TRUE, err |-> NoErr,
                             val |-> Ptr([Total |-> n, Tickets |-> Slice(GroupSlices(l))])]
         /\ \A n \in Totals, r \in TicketRecs :
              replies[1].data = FlatShape(n, <<r>>)
                => result.val = Ptr([Total |-> n, Tickets |-> Slice(<<Slice(<<r>>)>>)])

\* GetTicket has returned a nested-array response of two groups, the second of
\* two records, as it came.
C13_Witness ==
    /\ GetTicketAnswered
    /\ replies[1].data = NestedShape(2, <<<<[ticket_id |-> 102, user_id |-> 2]>>,
                                          <<[ticket_id |-> 102, user_id |-> 2],
                                            [ticket_id |-> 101, user_id |-> 1]>>>>)
    /\ result.err = NoErr
    /\ result.val.v.Total = 2
    /\ Len(result.val.v.Tickets.elems) = 2
    /\ Len(result.val.v.Tickets.elems[2].elems) = 2

\* The records of a flat-array payload: d is {total: n, tickets: [r1, ..., rk]}
\* with k >= 1 records of TicketRecs.
IsFlat(d, n, recs) == recs # <<>> /\ d = FlatShape(n, recs)

FlatInputs == {<<r>> : r \in TicketRecs} \cup {g \in Groups : Len(g) = 2}

\* C14: for a flat-array response {total: n, tickets: [r1, ..., rk]}, k >= 1,
\* GetTicket returns total n (whatever k is) and the k singleton groups
\* [[r1], ..., [rk]], in the order of the records.
C14_FlatWrapped ==
    \A n \in Totals \cup {2}, recs \in FlatInputs :
      (GetTicketAnswered /\ IsFlat(replies[1].data, n, recs))
        => result = [called |-> TRUE, err |-> NoErr,
                     val |-> Ptr([Total |-> n,
                                  Tickets |-> Slice([i \in 1..Len(recs) |-> Slice(<<recs[i]>>)])])]

\* GetTicket has returned the two singleton groups of a flat response of two
\* records, in order.
C14_Witness ==
    /\ GetTicketAnswered
    /\ replies[1].data = FlatShape(2, <<[ticket_id |-> 102, user_id |-> 2],
                                        [ticket_id |-> 101, user_id |-> 1]>>)
    /\ result.err = NoErr
    /\ result.val.v.Tickets.elems = <<Slice(<<[ticket_id |-> 102, user_id |-> 2]>>),
                                      Slice(<<[ticket_id |-> 101, user_id |-> 1]>>)>>

\* The i-th reply is an envelope of a status other than "Error".
Accepted(i) ==
    /\ Len(replies) >= i
    /\ IsEnvelope(replies[i])
    /\ replies[i].status # "Error"

ListingDecodeError ==
    [called |-> TRUE, err |-> Err("failed to parse ticket data", ""), val |-> NilPtr]

\* C15: answered data in flat-array shape, GetTicketsByStatus and
\* GetTicketsByDateRange fail with the decode error and return no ticket data
\* (the listing call of SearchTicketsByEmail likewise), whereas GetTicket
\* returns the same data without error.
C15_ListingsNestedOnly ==
    \A n \in Totals \cup {2}, recs \in FlatInputs :
      /\ (IsListingCmd /\ Accepted(1) /\ replies[1].data = FlatShape(n, recs))
           => pc = "exited" /\ result = ListingDecodeError /\ exit.code = 1
      /\ (IsSearchByEmail /\ Accepted(2) /\ replies[2].data = FlatShape(n, recs))
           => /\ pc = "exited"
              /\ result.err = Err("failed to parse ticket data", "")
              /\ result.val.data = NilPtr
              /\ exit.code = 1
      /\ (GetTicketAnswered /\ replies[1].data = FlatShape(n, recs))
           => result.err = NoErr /\ exit.code = 0

\* GetTicketsByDateRange has failed on a flat-array response of one record.
C15_Witness ==
    /\ pc = "exited"
    /\ IsListingCmd
    /\ cmd.flags.from # ""
    /\ cmd.flags.to # ""
    /\ Accepted(1)
    /\ reqlog[1].Body.Sort = "creationDate"
    /\ replies[1].data = FlatShape(1, <<[ticket_id |-> 101, user_id |-> 1]>>)
    /\ result = ListingDecodeError

\* The search has looked a user up and listed all tickets, both with success.
SearchListedAll ==
    /\ pc = "exited"
    /\ IsSearchByEmail
    /\ Len(replies) = 2
    /\ LookupFoundUser
    /\ Accepted(2)
    /\ ~DecodeTicketData(replies[2].data).err

FirstUser == DecodeUserData(replies[1].data).val.Users.elems[1]
ListedGroups == DecodeTicketData(replies[2].data).val.Tickets.elems

\* The group holds a record of the user.
HasRecordOf(g, uid) == \E i \in 1..Len(g.elems) : g.elems[i].user_id = uid

C17_OnlyErrorIsError ==
    (replies # <<>> /\ IsEnvelope(LastReply) /\ LastReply.status # "Error")
      => /\ ReadReply(LastReply).err = NoErr
         /\ ReadReply(LastReply).val.v.Status = LastReply.status
         /\ result.called => result.err.kind # "API error"
         /\ LastReply.data = JNull
              => pc = "exited" /\ result.called /\ result.err = NoErr /\ exit.code = 0

\* CreateTicket was answered an envelope of status "error" and has succeeded.
C17_Witness ==
    /\ pc = "exited"
    /\ cmd.name = "ticket create"
    /\ replies = <<Envelope("error", "", JNull)>>
    /\ result = [called |-> TRUE, err |-> NoErr, val |-> 0]
    /\ exit.code = 0

\* What a call stores for a key: the value given to the key's Set, "" for Clear.
StoredBy(call, key) ==
    CASE call.op = "SetBaseURL" /\ key = "base_url" -> IsSet(call.value)
      [] call.op = "SetAPIKey" /\ key = "api_key" -> IsSet(call.value)
      [] call.op = "Clear" -> IsSet("")
      [] OTHER -> Unset

\* The value most recently stored for a key by the calls cs, if any.
RECURSIVE LastStored(_, _)
LastStored(cs, key) ==
    IF cs = <<>> THEN Unset
    ELSE IF StoredBy(cs[Len(cs)], key).set THEN StoredBy(cs[Len(cs)], key)
    ELSE LastStored(SubSeq(cs, 1, Len(cs) - 1), key)

\* The value init loaded from the file for a key ("" without a file).
Loaded(key) == IF calls[1].value.exists THEN calls[1].value[key] ELSE ""

\* What a call for the key returns now by the claim's rule.
Current(key) ==
    IF env[key] # "" THEN env[key]
    ELSE IF LastStored(calls, key).set THEN LastStored(calls, key).val
    ELSE Loaded(key)

\* C18: at any point of a process, after any sequence of SetBaseURL, SetAPIKey
\* and Clear and any changes of its environment, GetBaseURL and GetAPIKey
\* return the environment's current value when it is not empty, and otherwise
\* the value most recently given to the key's Set or "" after a later Clear, or
\* the value init loaded from the file when the key was never stored.
C18_NoStaleValue ==
    calls # <<>>
      => /\ GetBaseURL(cfg, env) = Current("base_url")
         /\ GetAPIKey(cfg, env) = Current("api_key")

\* A process started with https://x in the file has set another base URL, then
\* cleared, then lost its environment value: GetBaseURL returns "".
C18_Witness ==
    /\ pc = "library"
    /\ Len(calls) = 3
    /\ calls[1].value.exists
    /\ calls[1].value.base_url = "https://x"
    /\ calls[2].op = "SetBaseURL"
    /\ calls[2].value = ":bad"
    /\ calls[3].op = "Clear"
    /\ env["base_url"] = ""
    /\ file.exists
    /\ file.base_url = ""
    /\ GetBaseURL(cfg, env) = ""

\* The last call of the process, a Set or a Clear, has succeeded.
LastCall == calls[Len(calls)]
LastCallWrote == Len(calls) >= 2 /\ LastCall.ok

\* C19: when a SetBaseURL(v) or SetAPIKey(v) has succeeded the file exists and
\* stores v under that key (also after a later call for the other key); when a
\* Clear has succeeded the file stores "" for both keys, and with both
\* environment variables empty IsConfigured() is false, in this process and in
\* the next one.
C19_SetAndClearPersist ==
    /\ \A i \in 2..Len(calls) :
         (calls[i].ok /\ calls[i].op = "SetBaseURL" /\ LastCall.op # "Clear")
           => file.exists /\ file.base_url = calls[i].value
    /\ (LastCallWrote /\ LastCall.op = "SetAPIKey")
         => file.exists /\ file.api_key = LastCall.value
    /\ (LastCallWrote /\ LastCall.op = "Clear")
         => /\ file = [exists |-> TRUE, base_url |-> "", api_key |-> ""]
            /\ env = [k \in Keys |-> ""]
                 => ~IsConfigured(cfg, env) /\ ~IsConfigured(init(file), env)

\* config clear has succeeded, with nothing in the environment, on a file that
\* held both values.
C19_Witness ==
    /\ pc = "exited"
    /\ cmd.name = "config clear"
    /\ calls = <<InitCall([exists |-> TRUE, base_url |-> "https://x", api_key |-> "k1"]),
                 Call("Clear", "", TRUE)>>
    /\ env = [k \in Keys |-> ""]
    /\ file = [exists |-> TRUE, base_url |-> "", api_key |-> ""]
    /\ exit.code = 0

\* The value stored for a key in the file the process started with.
StoredAtStart(key) == calls[1].value[key]

\* C20: when a process has made one successful call, a SetBaseURL, the api_key
\* stored in the file is what it was before the call; when the call is a
\* SetAPIKey, the stored base_url is what it was before.
C20_OtherKeyUnchanged ==
    (Len(calls) = 2 /\ LastCall.ok)
      => /\ LastCall.op = "SetBaseURL" => file.api_key = StoredAtStart("api_key")
         /\ LastCall.op = "SetAPIKey" => file.base_url = StoredAtStart("base_url")

\* The value the process holds for a key apart from the environment: the value
\* most recently given to the key's Set ("" after a Clear), else the value init
\* loaded from the file.
Held(key) ==
    IF LastStored(calls, key).set THEN LastStored(calls, key).val ELSE Loaded(key)

\* A reported source agrees with a returned value for the key.
SourceAgrees(key, value, source) ==
    /\ source \in {"env:" \o EnvName(key), "config", "not set"}
    /\ source = "env:" \o EnvName(key) <=> (env[key] # "" /\ value = env[key])
    /\ source = "config" <=> (env[key] = "" /\ value # "" /\ value = Held(key))
    /\ source = "not set" <=> value = ""

\* C21: in every state of a process, for each key, GetConfigSource reports
\* "env:<VARIABLE>" exactly when the environment variable is not empty and is what
\* GetBaseURL/GetAPIKey returns, "config" exactly when the variable is empty and
\* the returned value is the non-empty value held for the key, and "not set"
\* exactly when the returned value is ""; config show prints the value and the
\* source that agree in this way.
C21_SourceAgreesWithValue ==
    calls # <<>>
      => /\ SourceAgrees("base_url", GetBaseURL(cfg, env), GetConfigSource(cfg, env).baseURLSource)
         /\ SourceAgrees("api_key", GetAPIKey(cfg, env), GetConfigSource(cfg, env).apiKeySource)
         /\ cmd.name = "config show"
              => /\ SourceAgrees("base_url", exit.out.v.url, exit.out.v.urlSource)
                 /\ SourceAgrees("api_key", exit.out.v.key, exit.out.v.keySource)

\* config show with the base URL taken from the file and the API key taken from
\* the environment over a different stored key.
C21_Witness ==
    /\ pc = "exited"
    /\ cmd.name = "config show"
    /\ env = [base_url |-> "", api_key |-> "k2"]
    /\ file = [exists |-> TRUE, base_url |-> "https://x", api_key |-> "k1"]
    /\ exit.out.v = [url |-> "https://x", key |-> "k2",
                     urlSource |-> "config", keySource |-> "env:OSTICKET_API_KEY"]

\* The process runs ticket search and getClient has given it a client.
IsSearch == cmd.run /\ cmd.name = "ticket search" /\ ~client.nil

\* The request envelopes of the four lookups.
ByNumber(number) == Request("ticket", "specific", "", [id |-> number])
ByEmail(email) == Request("user", "specific", "email", [email |-> email])
ByStatus(status) == Request("ticket", "all", "status", [status |-> status])
ByDateRange(from, to) ==
    Request("ticket", "all", "creationDate", [start_date |-> from, end_date |-> to])

\* The envelopes sent so far are exactly a beginning of lookup, and all of it
\* once the process has ended without an error.
Sent(lookup) ==
    /\ Len(reqlog) <= Len(lookup)
    /\ \A i \in 1..Len(reqlog) : reqlog[i].Body = lookup[i]
    /\ client.v.BaseURL \notin InvalidURLs => Len(reqlog) >= 1
    /\ (pc = "exited" /\ exit.code = 0 /\ cmd.flags.raw) => Len(reqlog) = Len(lookup)

\* C22: a ticket search that has a client performs the one lookup its flags
\* select, in both output modes.  With --number it sends the retrieval of that
\* ticket and nothing else, whatever the other flags; otherwise with --email the
\* composite search (the user lookup by that email, then at most the listing of
\* all tickets, status 0); otherwise with --phone it sends nothing and ends with
\* exit code 0; otherwise with both --from and --to the date-range listing of
\* the two dates; in every other case, one of --from/--to alone included, the
\* status listing of the --status value.
C22_SearchPrecedence ==
    IsSearch
      => IF cmd.flags.number # "" THEN Sent(<<ByNumber(cmd.flags.number)>>)
         ELSE IF cmd.flags.email # "" THEN Sent(<<ByEmail(cmd.flags.email), ByStatus(0)>>)
         ELSE IF cmd.flags.phone # ""
         THEN reqlog = <<>> /\ pc = "exited" /\ exit.code = 0 /\ ~result.called
         ELSE IF cmd.flags.from # "" /\ cmd.flags.to # ""
         THEN Sent(<<ByDateRange(cmd.flags.from, cmd.flags.to)>>)
         ELSE Sent(<<ByStatus(cmd.flags.status)>>)

\* ticket search --number API1 --email a@x --phone 555 --status 1 --from
\* 2024-01-01 --to 2024-12-31 has ended having sent the one retrieval of API1.
C22_Witness ==
    /\ pc = "exited"
    /\ IsSearch
    /\ cmd.flags = [raw |-> FALSE, number |-> "API1", email |-> "a@x", phone |-> "555",
                    status |-> 1, from |-> "2024-01-01", to |-> "2024-12-31"]
    /\ Len(reqlog) = 1
    /\ reqlog[1].Body = ByNumber("API1")
    /\ exit.code = 0

====
